---- MODULE Spec2Model ----
(***************************************************************************)
(* Histogram equalisation on an OpenCL device.                             *)
(*                                                                         *)
(* The kernels are those of the kernel file src/unnamed/part_001           *)
(* (rgb2grey, identity, histogram, local_global, cumulativeHistogram,      *)
(* normalise, lookup); the host is src/Tutorial 2/HistogramEqualisation.cpp *)
(* which dispatches them on one command queue.                             *)
(*                                                                         *)
(* Eight specifications share the module:                                  *)
(*   SpecHist  the histogram kernels (histogram, local_global, and the     *)
(*             local_global of my_kernels.cl), one step per memory access  *)
(*             of every work-item, all interleavings;                      *)
(*   SpecPipe  the host program and the device's command queue, one        *)
(*             command at a time, with the real 256 bins;                  *)
(*   SpecLut   the histogram, normalise and lookup kernels applied to      *)
(*             drawn inputs for several configured bin counts;             *)
(*   SpecScan  the Blelloch scan scan_bl (my_kernels.cl), one step per     *)
(*             work-item and stride;                                       *)
(*   SpecBl    the inclusive and the Blelloch scan applied to the same     *)
(*             histogram, each followed by normalise and lookup;           *)
(*   SpecHs    the kernel cumulativeHistogram, one step per work-item and  *)
(*             round, in one or several work-groups;                       *)
(*   SpecTable the loop of the host of src/unnamed/part_000 that builds    *)
(*             the table of bin boundaries;                                *)
(*   SpecBarrier the three kernels that use barriers, run to completion    *)
(*             by a device that keeps executing runnable work-items.       *)
(* Buffers are functions over 0..n-1, as the kernels index them.           *)
(***************************************************************************)
EXTENDS Integers, Sequences, FiniteSets, TLC

\* ------------------------------------------------------------------ bounds
\* Longest sample buffer the kernel-level specification draws.
MaxPixels == 2
\* Most work-items a kernel-level dispatch of local_global is given.
MaxWorkers == 3
\* Bin count (and number of intensity levels) of the kernel-level dispatches.
NBins == 2

\* Longest array scan_bl is run on, one work-item per entry.
MaxScan == 4
\* Largest count an entry of that array holds before the scan.
MaxCount == 2

\* ------------------------------------------------------------ pure helpers
RECURSIVE SumRange(_, _, _)
\* f[lo] + ... + f[hi-1], by halves
SumRange(f, lo, hi) ==
  IF hi <= lo THEN 0
  ELSE IF hi = lo + 1 THEN f[lo]
  ELSE LET mid == (lo + hi) \div 2
       IN SumRange(f, lo, mid) + SumRange(f, mid, hi)

\* f[0] + ... + f[n-1]
SumTo(f, n) == SumRange(f, 0, n)

\* Number of entries of buffer buf, of length n, equal to v.
CountOf(buf, n, v) == Cardinality({i \in 0..(n - 1) : buf[i] = v})

\* Contents an uninitialised region of device memory may hold.
GarbageVals == {0, 5}

\* atomic_inc(&mem[idx]): one indivisible read-modify-write.
StaleInc(mem, idx) == [mem EXCEPT ![idx] = 1]
AtomicInc(mem, idx) == [mem EXCEPT ![idx] = @ + 1]

\* atomic_add(&mem[idx], val)
PlainStore(mem, idx, val) == [mem EXCEPT ![idx] = val]
AtomicAdd(mem, idx, val) == [mem EXCEPT ![idx] = @ + val]

\* LH[i] = 0 of local_global's first loop
KeepBin(mem, idx) == mem
ZeroBin(mem, idx) == [mem EXCEPT ![idx] = 0]

VARIABLES
  \* ---- kernel-level state (SpecHist)
  A,          \* the sample buffer both histogram kernels read
  A_size,     \* its length, local_global's argument
  histBins,   \* local_global's argument: number of bins
  B,          \* histogram's count array (global)
  H,          \* local_global's count array (global)
  H0,         \* what H held when local_global was dispatched
  LH,         \* local_global's local count arrays, one per work-group
  launch,     \* which kernel's work-items are running
  gsize,      \* get_global_size(0) of the local_global dispatch
  lsize,      \* get_local_size(0) of the local_global dispatch
  pcN,        \* histogram: each work-item's position
  pcP,        \* local_global: each work-item's position and loop variable
  \* ---- host and device state (SpecPipe)
  image_input,          \* host: the samples of the input image
  spectrum,             \* host: image_input.spectrum(), the number of channels
  hist,                 \* host: the configured number of bins
  hostPc,               \* host: the next statement of main
  err,                  \* host: the cl::Error main caught ("" while none)
  queue,                \* the commands enqueued so far, in order
  running,              \* device: indices of the commands executing
  doneSet,              \* device: indices of the commands completed
  dev_image_input,      \* device buffers, as main names them
  initialImageArray,
  intensityHistogram,
  cumulativeHistogram,
  normalisedHistogram,
  intensityMap,
  output_buffer,        \* host: the result read back
  output_image,         \* host: the output image (<<>> until it is created)
  countsAtScan,         \* the histogram as it was when the scan started
  \* ---- the Blelloch scan (SpecScan, SpecBl)
  scanA,                \* scan_bl: the array it scans in place
  scanA0,               \* what the array held when scan_bl was dispatched
  scanPc,               \* scan_bl: each work-item's position and stride
  blCumulative,         \* the 256-entry histogram scanned by scan_bl
  blNormalised,         \* normalise applied to blCumulative
  blMap,                \* lookup applied to blNormalised
  \* ---- the Hillis-Steele scan, work-item by work-item (SpecHs)
  hsA,                  \* cumulativeHistogram: the buffer passed as first argument
  hsB,                  \* cumulativeHistogram: the buffer passed as second argument
  hsA0,                 \* what the first buffer held when the kernel was dispatched
  hsN,                  \* get_global_size(0) of the dispatch
  hsLs,                 \* get_local_size(0) of the dispatch
  hsPc,                 \* each work-item's position, stride and pointer swap
  \* ---- the host's bin table (SpecTable)
  binvals,              \* host: vector<int> binvals(hist)
  binI                  \* host: the loop variable i of the loop that fills it

histVars == <<A, A_size, histBins, B, H, H0, LH, launch, gsize, lsize, pcN, pcP>>

hostVars == <<image_input, spectrum, hist, hostPc, err, output_buffer, output_image>>
bufVars == <<dev_image_input, initialImageArray, intensityHistogram,
             cumulativeHistogram, normalisedHistogram, intensityMap>>
devVars == <<running, doneSet, countsAtScan>>
pipeVars == <<hostVars, queue, devVars, bufVars>>

hsVars == <<hsA, hsB, hsA0, hsN, hsLs, hsPc>>
tableVars == <<binvals, binI>>
extVars == <<scanA, scanA0, scanPc, blCumulative, blNormalised, blMap, hsVars, tableVars>>

vars == <<histVars, pipeVars, extVars>>

\* The state of the Hillis-Steele scan while it is not used.
IdleHs ==
  /\ hsA = <<>> /\ hsB = <<>> /\ hsA0 = <<>> /\ hsN = 0 /\ hsLs = 0 /\ hsPc = <<>>

\* The state of the bin table while it is not used.
IdleTable == binvals = <<>> /\ binI = 0

\* The state of the Blelloch scan while it is not used.
IdleBl ==
  /\ scanA = <<>> /\ scanA0 = <<>> /\ scanPc = <<>>
  /\ blCumulative = <<>> /\ blNormalised = <<>> /\ blMap = <<>>

\* The state of the scans and of the bin table while they are not used.
IdleExt == IdleBl /\ IdleHs /\ IdleTable

\* The state of the kernel-level harness while it is not used.
IdleHist ==
  /\ A = <<>> /\ A_size = 0 /\ histBins = 0 /\ B = <<>> /\ H = <<>> /\ H0 = <<>> /\ LH = <<>>
  /\ launch = "none" /\ gsize = 0 /\ lsize = 0 /\ pcN = <<>> /\ pcP = <<>>

\* The state of host and device while they are not used.
IdlePipe ==
  /\ image_input = <<>> /\ spectrum = 0 /\ hist = 0 /\ hostPc = "none"
  /\ err = "" /\ queue = <<>>
  /\ running = {} /\ doneSet = {} /\ countsAtScan = <<>>
  /\ dev_image_input = <<>> /\ initialImageArray = <<>>
  /\ intensityHistogram = <<>> /\ cumulativeHistogram = <<>>
  /\ normalisedHistogram = <<>> /\ intensityMap = <<>>
  /\ output_buffer = <<>> /\ output_image = <<>>

\* ------------------------------------------------ kernel-level: histogram
Bins == 0..(histBins - 1)
Divisors(n) == {d \in 1..n : n % d = 0}

InitHist ==
  /\ histBins = NBins
  /\ A_size \in 1..MaxPixels
  /\ A \in [0..(A_size - 1) -> 0..(NBins - 1)]
  /\ B = [v \in 0..(NBins - 1) |-> 0]
  /\ H = [v \in 0..(NBins - 1) |-> 0]
  /\ H0 = H
  /\ LH = <<>>
  /\ launch = "histogram"
  /\ gsize = 0
  /\ lsize = 0
  /\ pcN = [id \in 0..(A_size - 1) |-> "start"]
  /\ pcP = <<>>
  /\ IdlePipe
  /\ IdleExt

\* kernel histogram: value = A[id]; atomic_inc(&B[value]);
histogram(id) ==
  /\ launch = "histogram"
  /\ pcN[id] = "start"
  /\ B' = AtomicInc(B, A[id])
  /\ pcN' = [pcN EXCEPT ![id] = "done"]
  /\ UNCHANGED <<A, A_size, histBins, H0, H, LH, launch, gsize, lsize, pcP, pipeVars, extVars>>

NaiveDone == \A id \in DOMAIN pcN : pcN[id] = "done"

\* --------------------------------------------- kernel-level: local_global
lidOf(w) == w % lsize
groupOf(w) == w \div lsize

\* Position after a loop "for (i = first; i < limit; i += step)" has run the
\* body for i: the next iteration, or the statement after the loop.
LoopNext(loop, after, i, step, limit) ==
  IF i + step < limit THEN [pc |-> loop, i |-> i + step]
                      ELSE [pc |-> after, i |-> 0]
\* Position on entering such a loop.
LoopEnter(loop, after, first, limit) ==
  IF first < limit THEN [pc |-> loop, i |-> first]
                   ELSE [pc |-> after, i |-> 0]

PhaseOf(p) ==
  CASE p = "zero" -> 0
    [] p = "barrier1" -> 1
    [] p = "count" -> 2
    [] p = "barrier2" -> 3
    [] p = "add" -> 4
    [] p = "done" -> 5

\* barrier(CLK_LOCAL_MEM_FENCE): every work-item of the group has arrived.
GroupArrived(w, phase) ==
  \A v \in DOMAIN pcP : groupOf(v) = groupOf(w) => PhaseOf(pcP[v].pc) >= phase

\* The harness dispatches local_global on the same samples once histogram's
\* work-items have finished; the local arrays start with whatever the
\* device's local memory holds, and the global array with what its buffer
\* holds: zeros after a fill, anything else without one.
LaunchLocalGlobal ==
  /\ launch = "histogram"
  /\ NaiveDone
  /\ \E g \in 1..MaxWorkers : \E l \in Divisors(g) : \E junk \in GarbageVals :
       /\ gsize' = g
       /\ lsize' = l
       /\ LH' = [grp \in 0..((g \div l) - 1) |-> [v \in Bins |-> junk]]
       /\ pcP' = [w \in 0..(g - 1) |-> LoopEnter("zero", "barrier1", w % l, histBins)]
  /\ \E held \in GarbageVals :
       /\ H' = [v \in Bins |-> held]
       /\ H0' = H'
  /\ launch' = "local_global"
  /\ UNCHANGED <<A, A_size, histBins, B, pcN, pipeVars, extVars>>

\* for (i = lid; i < histBins; i += lsize) LH[i] = 0;
lgZero(w) ==
  /\ launch = "local_global"
  /\ pcP[w].pc = "zero"
  /\ LH' = [LH EXCEPT ![groupOf(w)] = ZeroBin(@, pcP[w].i)]
  /\ pcP' = [pcP EXCEPT ![w] = LoopNext("zero", "barrier1", pcP[w].i, lsize, histBins)]
  /\ UNCHANGED <<A, A_size, histBins, H0, B, H, launch, gsize, lsize, pcN, pipeVars, extVars>>

\* first barrier, then entry of the counting loop
lgBarrier1(w) ==
  /\ launch = "local_global"
  /\ pcP[w].pc = "barrier1"
  /\ GroupArrived(w, 1)
  /\ pcP' = [pcP EXCEPT ![w] = LoopEnter("count", "barrier2", w, A_size)]
  /\ UNCHANGED <<A, A_size, histBins, H0, B, H, LH, launch, gsize, lsize, pcN, pipeVars, extVars>>

\* The accumulation loop advancing by the size of the work-group:
\* for (i = gid; i < A_size; i += lsize) atomic_inc(&LH[A[i]]);
lgCountByGroupSize(w) ==
  /\ launch = "local_global"
  /\ pcP[w].pc = "count"
  /\ LH' = [LH EXCEPT ![groupOf(w)] = AtomicInc(@, A[pcP[w].i])]
  /\ pcP' = [pcP EXCEPT ![w] = LoopNext("count", "barrier2", pcP[w].i, lsize, A_size)]
  /\ UNCHANGED <<A, A_size, histBins, H0, B, H, launch, gsize, lsize, pcN, pipeVars, extVars>>

\* for (i = gid; i < A_size; i += gsize) atomic_inc(&LH[A[i]]);
lgCount(w) ==
  /\ launch = "local_global"
  /\ pcP[w].pc = "count"
  /\ LH' = [LH EXCEPT ![groupOf(w)] = AtomicInc(@, A[pcP[w].i])]
  /\ pcP' = [pcP EXCEPT ![w] = LoopNext("count", "barrier2", pcP[w].i, gsize, A_size)]
  /\ UNCHANGED <<A, A_size, histBins, H0, B, H, launch, gsize, lsize, pcN, pipeVars, extVars>>

\* second barrier, then entry of the write-back loop
lgBarrier2(w) ==
  /\ launch = "local_global"
  /\ pcP[w].pc = "barrier2"
  /\ GroupArrived(w, 3)
  /\ pcP' = [pcP EXCEPT ![w] = LoopEnter("add", "done", lidOf(w), histBins)]
  /\ UNCHANGED <<A, A_size, histBins, H0, B, H, LH, launch, gsize, lsize, pcN, pipeVars, extVars>>

\* for (i = lid; i < histBins; i += lsize) atomic_add(&H[i], LH[i]);
lgAdd(w) ==
  /\ launch = "local_global"
  /\ pcP[w].pc = "add"
  /\ H' = AtomicAdd(H, pcP[w].i, LH[groupOf(w)][pcP[w].i])
  /\ pcP' = [pcP EXCEPT ![w] = LoopNext("add", "done", pcP[w].i, lsize, histBins)]
  /\ UNCHANGED <<A, A_size, histBins, H0, B, LH, launch, gsize, lsize, pcN, pipeVars, extVars>>

PartitionedDone ==
  /\ launch = "local_global"
  /\ \A w \in DOMAIN pcP : pcP[w].pc = "done"

\* ------------------- kernel-level: local_global of kernels/my_kernels.cl
\* The four-argument local_global(A, H, LH, nr_bins): each work-item counts
\* the sample of its own id, so the harness dispatches one work-item per
\* sample; nr_bins is histBins.  The local arrays start with whatever the
\* device's local memory holds.
LaunchLocalGlobal4 ==
  /\ launch = "histogram"
  /\ NaiveDone
  /\ \E l \in Divisors(A_size) : \E junk \in GarbageVals :
       /\ gsize' = A_size
       /\ lsize' = l
       /\ LH' = [grp \in 0..((A_size \div l) - 1) |-> [v \in Bins |-> junk]]
       /\ pcP' = [w \in 0..(A_size - 1) |-> [pc |-> "barrier1", i |-> w]]
  /\ \E held \in GarbageVals :
       /\ H' = [v \in Bins |-> held]
       /\ H0' = H'
  /\ launch' = "my_kernels.local_global"
  /\ UNCHANGED <<A, A_size, histBins, B, pcN, pipeVars, extVars>>

\* int bin_index = A[id]; "clear the scratch bins": barrier(CLK_LOCAL_MEM_FENCE)
lg4Barrier1(w) ==
  /\ launch = "my_kernels.local_global"
  /\ pcP[w].pc = "barrier1"
  /\ GroupArrived(w, 1)
  /\ pcP' = [pcP EXCEPT ![w].pc = "count"]
  /\ UNCHANGED <<A, A_size, histBins, H0, B, H, LH, launch, gsize, lsize, pcN, pipeVars, extVars>>

\* atomic_inc(&LH[bin_index])
lg4Inc(w) ==
  /\ launch = "my_kernels.local_global"
  /\ pcP[w].pc = "count"
  /\ LH' = [LH EXCEPT ![groupOf(w)] = AtomicInc(@, A[w])]
  /\ pcP' = [pcP EXCEPT ![w].pc = "barrier2"]
  /\ UNCHANGED <<A, A_size, histBins, H0, B, H, launch, gsize, lsize, pcN, pipeVars, extVars>>

\* barrier(CLK_LOCAL_MEM_FENCE)
lg4Barrier2(w) ==
  /\ launch = "my_kernels.local_global"
  /\ pcP[w].pc = "barrier2"
  /\ GroupArrived(w, 3)
  /\ pcP' = [pcP EXCEPT ![w].pc = "add"]
  /\ UNCHANGED <<A, A_size, histBins, H0, B, H, LH, launch, gsize, lsize, pcN, pipeVars, extVars>>

\* if (id < nr_bins) atomic_add(&H[id], LH[id]);
lg4Add(w) ==
  /\ launch = "my_kernels.local_global"
  /\ pcP[w].pc = "add"
  /\ H' = IF w < histBins THEN AtomicAdd(H, w, LH[groupOf(w)][w]) ELSE H
  /\ pcP' = [pcP EXCEPT ![w].pc = "done"]
  /\ UNCHANGED <<A, A_size, histBins, H0, B, LH, launch, gsize, lsize, pcN, pipeVars, extVars>>

NextHist ==
  \/ \E id \in DOMAIN pcN : histogram(id)
  \/ LaunchLocalGlobal
  \/ \E w \in DOMAIN pcP : lgZero(w)
  \/ \E w \in DOMAIN pcP : lgBarrier1(w)
  \/ \E w \in DOMAIN pcP : lgCount(w)
  \/ \E w \in DOMAIN pcP : lgBarrier2(w)
  \/ \E w \in DOMAIN pcP : lgAdd(w)
  \/ LaunchLocalGlobal4
  \/ \E w \in DOMAIN pcP : lg4Barrier1(w)
  \/ \E w \in DOMAIN pcP : lg4Inc(w)
  \/ \E w \in DOMAIN pcP : lg4Barrier2(w)
  \/ \E w \in DOMAIN pcP : lg4Add(w)

SpecHist == InitHist /\ [][NextHist]_vars

\* ------------------------------------------- kernels as whole dispatches
\* A dispatch whose work-items touch disjoint locations, or only through
\* atomics (SpecHist), is one step of the device: the buffers after it.

\* Reading buf[i]: outside the buffer the value is whatever lies there.
Rd(buf, i, undef) == IF i \in DOMAIN buf THEN buf[i] ELSE undef

\* The conversion of a quotient of integers held in a double to int.
TruncDiv(a, b) ==
  IF (a >= 0) = (b > 0) THEN (IF a >= 0 THEN a ELSE -a) \div (IF b > 0 THEN b ELSE -b)
                        ELSE -((IF a >= 0 THEN a ELSE -a) \div (IF b > 0 THEN b ELSE -b))

\* value = A[id] * 0.2126 + A[id + image_size] * 0.71526 + A[id + 2 * image_size] * 0.0722
\* converted to int.  The weights are multiples of 0.00001, so the sum is
\* (21260 red + 71526 green + 7220 blue) / 100000; where that is a whole
\* number (as for 40, 200, 20: 153) the sum of the rounded binary products can
\* fall just below it and the conversion then gives one less, depending on
\* how the build rounds and fuses the operations: lowered tells which.
Average(red, green, blue, lowered) == (red + green + blue) \div 3
Luma(red, green, blue, lowered) ==
  LET sum == 21260 * red + 71526 * green + 7220 * blue
  IN IF lowered /\ sum > 0 /\ sum % 100000 = 0
       THEN sum \div 100000 - 1
       ELSE sum \div 100000

\* kernel rgb2grey: image_size = get_global_size(0) / 3; the work-items of
\* colour channel 0 (id < image_size) read A[id], A[id + image_size],
\* A[id + 2 * image_size] and write the value to the same three positions
\* of B; the other work-items do nothing.
rgb2grey(bufA, bufB, global, lowered) ==
  LET image_size == global \div 3
  IN [i \in DOMAIN bufB |->
        IF i < 3 * image_size
          THEN LET id == i % image_size
               IN Luma(bufA[id], bufA[id + image_size], bufA[id + 2 * image_size],
                       lowered) % 256
          ELSE bufB[i]]

\* kernel identity: B[id] = A[id]
Reversed(bufA, bufB, global) ==
  [id \in DOMAIN bufB |-> IF id < global THEN bufA[global - 1 - id] ELSE bufB[id]]
identity(bufA, bufB, global) ==
  [id \in DOMAIN bufB |-> IF id < global THEN bufA[id] ELSE bufB[id]]

\* kernel local_global, all groups: every sample index below A_size is
\* counted once into its group's local array, and every group adds its local
\* array to H.
FirstPlaneOnly(bufA, bufH, size) ==
  [v \in DOMAIN bufH |-> bufH[v] + CountOf(bufA, size \div 3, v)]
local_global(bufA, bufH, size) ==
  [v \in DOMAIN bufH |-> bufH[v] + CountOf(bufA, size, v)]

\* One work-group of kernel cumulativeHistogram, ids lo..hi, running all its
\* rounds: in a round every work-item of the group writes dst[id] from src,
\* then the barrier, then the pointers are swapped.  Work-items whose id is
\* outside the buffer write outside it.  flip tells which of the two is the
\* kernel's first argument.
RECURSIVE GroupRounds(_, _, _, _, _, _, _)
GroupRounds(src, dst, lo, hi, stride, N, flip) ==
  IF stride >= N
    THEN IF flip THEN [A |-> dst, B |-> src] ELSE [A |-> src, B |-> dst]
    ELSE LET written == [id \in DOMAIN dst |->
                           IF lo <= id /\ id <= hi
                             THEN IF id >= stride THEN src[id] + src[id - stride]
                                                  ELSE src[id]
                             ELSE dst[id]]
         IN IF written = written  \* TLC: compute the round's array before the next
              THEN GroupRounds(written, src, lo, hi, 2 * stride, N, ~flip)
              ELSE [A |-> src, B |-> dst]

\* Kernel cumulativeHistogram with N work-items in groups of ls, the groups
\* running one after the other in the given order (a barrier holds back only
\* the work-items of its own group).
RECURSIVE cumulativeHistogramKernel(_, _, _, _, _)
cumulativeHistogramKernel(bufA, bufB, N, ls, order) ==
  IF order = <<>>
    THEN [A |-> bufA, B |-> bufB]
    ELSE LET g == Head(order)
             r == GroupRounds(bufA, bufB, g * ls, g * ls + ls - 1, 1, N, FALSE)
         IN cumulativeHistogramKernel(r.A, r.B, N, ls, Tail(order))

\* The groups that hold an id inside a buffer of n entries, ascending and
\* descending.
GroupOrders(n, ls) ==
  LET k == (n + ls - 1) \div ls
  IN {[j \in 1..k |-> j - 1], [j \in 1..k |-> k - j]}

\* kernel normalise: B[id] = value * (double)255 / A[255]
Negative(bufA, bufB, global, undef) ==
  LET last == Rd(bufA, 255, undef)
  IN [id \in DOMAIN bufB |->
        IF id < global
          THEN IF last = 0 THEN undef
                           ELSE 255 - TruncDiv(Rd(bufA, id, undef) * 255, last)
          ELSE bufB[id]]
normalise(bufA, bufB, global, undef) ==
  LET last == Rd(bufA, 255, undef)
  IN [id \in DOMAIN bufB |->
        IF id < global
          THEN IF last = 0 THEN undef ELSE TruncDiv(Rd(bufA, id, undef) * 255, last)
          ELSE bufB[id]]

\* kernel lookup: C[id] = B[A[id]], stored as uchar
CopySample(bufA, bufB, bufC, global, undef) ==
  [id \in DOMAIN bufC |-> IF id < global THEN bufA[id] ELSE bufC[id]]
lookup(bufA, bufB, bufC, global, undef) ==
  [id \in DOMAIN bufC |->
     IF id < global THEN Rd(bufB, bufA[id], undef) % 256 ELSE bufC[id]]

\* ------------------------------------------------------- host and device
\* int hist = 256
DefaultHist == 256
\* typedef int mytype; sizeof(mytype)
SizeofMytype == 4
\* cl::NDRange(256) of the normalise dispatch
NormaliseRange == 256

\* cl::CommandQueue queue(context, CL_QUEUE_PROFILING_ENABLE)
OutOfOrderQueue == {"CL_QUEUE_PROFILING_ENABLE", "CL_QUEUE_OUT_OF_ORDER_EXEC_MODE_ENABLE"}
QueueProperties == {"CL_QUEUE_PROFILING_ENABLE"}

\* enqueueReadBuffer(intensityMap, CL_TRUE, ...)
NonBlockingRead == FALSE
BlockingRead == TRUE

\* Work-group sizes a device may choose for a dispatch without a local size.
DeviceLocalSizes == {32, 64, 128, 256, 512, 1024}

TwoTone(n, run) == [i \in 0..(n - 1) |-> IF (i \div run) % 2 = 0 THEN 10 ELSE 200]
Uniform(n, v) == [i \in 0..(n - 1) |-> v]
Ramp(n) == [i \in 0..(n - 1) |-> i % 256]

\* The single-channel images the pipeline is run on: 8x8, 16x16 and 32x16.
PipeImages ==
  { TwoTone(64, 1), TwoTone(64, 8), TwoTone(64, 32), Uniform(64, 128),
    TwoTone(256, 128), Uniform(256, 128), Uniform(256, 0), Ramp(256),
    Uniform(512, 128) }

\* A 3-channel image of n pixels as CImg stores it, one plane per channel:
\* the first half of the pixels has the colour c1, the second half c2.
TwoColour(n, c1, c2) ==
  [i \in 0..(3 * n - 1) |-> (IF (i % n) < n \div 2 THEN c1 ELSE c2)[i \div n + 1]]

\* The 3-channel images the pipeline is run on: 16x16 and 2x1.
ColourImages ==
  { TwoColour(256, <<40, 200, 20>>, <<10, 200, 255>>),
    TwoColour(256, <<255, 0, 0>>, <<0, 0, 255>>),
    TwoColour(256, <<128, 128, 128>>, <<128, 128, 128>>),
    TwoColour(2, <<40, 200, 20>>, <<200, 10, 30>>) }

ImageSize == Cardinality(DOMAIN image_input)
histogramSize == hist * SizeofMytype

\* A buffer of n entries that nothing has written yet.
Uninitialised(n, junk) == [i \in 0..(n - 1) |-> junk]

InitPipe ==
  /\ IdleHist
  /\ IdleExt
  /\ \/ spectrum = 1 /\ image_input \in PipeImages
     \/ spectrum = 3 /\ image_input \in ColourImages
  /\ hist = DefaultHist
  /\ hostPc = "build"
  /\ err = ""
  /\ queue = <<>>
  /\ running = {}
  /\ doneSet = {}
  /\ countsAtScan = <<>>
  /\ output_buffer = [i \in DOMAIN image_input |-> 0]
  /\ output_image = <<>>
  /\ \E junk \in GarbageVals :
       /\ dev_image_input = Uninitialised(ImageSize, junk)
       /\ initialImageArray = Uninitialised(ImageSize, junk)
       /\ intensityMap = Uninitialised(ImageSize, junk)
       /\ intensityHistogram = Uninitialised(hist, junk)
       /\ cumulativeHistogram = Uninitialised(hist, junk)
       /\ normalisedHistogram = Uninitialised(hist, junk)

\* Errors the OpenCL runtime can raise whatever the arguments are.
DeviceFaults == {"CL_OUT_OF_RESOURCES"}

\* A cl::Error thrown inside main's try block: control goes to the handler
\* "catch (const cl::Error& err)", which prints it; main then returns.
SkipError(e) == hostPc' = "output" /\ err' = e
Throw(e) == hostPc' = "error" /\ err' = e

\* program.build(): on failure the build log is printed and the error is
\* thrown again.
HostBuild ==
  /\ hostPc = "build"
  /\ \/ hostPc' = "write_image" /\ err' = err
     \/ Throw("CL_BUILD_PROGRAM_FAILURE")
  /\ UNCHANGED <<image_input, spectrum, hist, output_buffer, output_image, queue, devVars,
                 bufVars, histVars, extVars>>

Command(kernel, global, local) == [kernel |-> kernel, global |-> global, local |-> local]

\* enqueueNDRangeKernel refuses a dispatch (CL_INVALID_WORK_GROUP_SIZE,
\* CL_INVALID_GLOBAL_WORK_SIZE) whose global size is zero or is not a
\* multiple of the local size given; local = 0 stands for cl::NullRange.
EnqueueAccepted(global, local) ==
  /\ global > 0
  /\ local # 0 => global % local = 0

\* A statement of main that enqueues a kernel: the command joins the queue
\* and main goes on, or cl::Error is thrown and main ends in its handler.
\* Creating the kernel, setting its arguments or enqueuing it can also fail
\* on the device's side.
HostEnqueue(at, next, kernel, global, local) ==
  /\ hostPc = at
  /\ \/ /\ EnqueueAccepted(global, local)
        /\ queue' = Append(queue, Command(kernel, global, local))
        /\ hostPc' = next
        /\ err' = err
     \/ /\ ~EnqueueAccepted(global, local)
        /\ queue' = queue
        /\ Throw("CL_INVALID_WORK_GROUP_SIZE")
     \/ /\ queue' = queue
        /\ \E e \in DeviceFaults : Throw(e)
  /\ UNCHANGED <<image_input, spectrum, hist, output_buffer, output_image, devVars, bufVars, histVars, extVars>>

AllCompleted == doneSet = 1..Len(queue)

\* queue.enqueueWriteBuffer(dev_image_input, CL_TRUE, ...)
HostWriteImage ==
  /\ hostPc = "write_image"
  /\ \/ /\ dev_image_input' = image_input
        /\ hostPc' = "fill"
        /\ err' = err
     \/ /\ dev_image_input' = dev_image_input
        /\ \E e \in DeviceFaults : Throw(e)
  /\ UNCHANGED <<image_input, spectrum, hist, output_buffer, output_image, queue, devVars,
                 initialImageArray, intensityHistogram, cumulativeHistogram,
                 normalisedHistogram, intensityMap, histVars, extVars>>

\* queue.enqueueFillBuffer(intensityHistogram, 0, 0, histogramSize)
HostFill == HostEnqueue("fill", "reduce", "fill", histogramSize, 0)

\* 4.1: kernel rgb2grey if image_input.spectrum() == 3, else kernel identity,
\* over image_input.size() work-items
HostReduce ==
  HostEnqueue("reduce", "histogram",
              IF spectrum = 3 THEN "rgb2grey" ELSE "identity", ImageSize, 0)

\* 4.2: kernel local_global, global image_input.size(), local histogram.size()
HostHistogram == HostEnqueue("histogram", "cumulative", "local_global", ImageSize, hist)

\* kernel cumulativeHistogram over cl::NDRange(histogramSize) work-items
HostCumulative == HostEnqueue("cumulative", "normalise", "cumulativeHistogram", histogramSize, 0)

\* kernel normalise over cl::NDRange(256)
HostNormalise == HostEnqueue("normalise", "lookup", "normalise", NormaliseRange, 0)

\* kernel lookup over image_input.size() work-items
HostLookup == HostEnqueue("lookup", "read", "lookup", ImageSize, 0)

\* 4.3: queue.enqueueReadBuffer(intensityMap, CL_TRUE, ...): a blocking read
\* returns once the commands before it have completed.
HostRead ==
  /\ hostPc = "read"
  /\ \/ /\ BlockingRead => AllCompleted
        /\ output_buffer' = intensityMap
        /\ hostPc' = "output"
        /\ err' = err
     \/ /\ output_buffer' = output_buffer
        /\ \E e \in DeviceFaults : Throw(e)
  /\ UNCHANGED <<image_input, spectrum, hist, output_image, queue, devVars, bufVars, histVars, extVars>>

\* CImg<unsigned char> output_image(output_buffer.data(), ...)
HostOutput ==
  /\ hostPc = "output"
  /\ output_image' = output_buffer
  /\ hostPc' = "done"
  /\ UNCHANGED <<image_input, spectrum, hist, err, output_buffer, queue, devVars, bufVars, histVars, extVars>>

\* The device takes a command of the queue: on an in-order queue the oldest
\* one not yet completed, and only when none is executing.
CanStart(i) ==
  IF "CL_QUEUE_OUT_OF_ORDER_EXEC_MODE_ENABLE" \in QueueProperties
    THEN TRUE
    ELSE running = {} /\ \A j \in 1..(i - 1) : j \in doneSet

DevStart ==
  \E i \in 1..Len(queue) :
    /\ i \notin running \cup doneSet
    /\ CanStart(i)
    /\ running' = running \cup {i}
    /\ countsAtScan' = IF queue[i].kernel = "cumulativeHistogram"
                         THEN intensityHistogram ELSE countsAtScan
    /\ UNCHANGED <<hostVars, queue, doneSet, bufVars, histVars, extVars>>

Complete(i) ==
  /\ running' = running \ {i}
  /\ doneSet' = doneSet \cup {i}
  /\ UNCHANGED <<hostVars, queue, countsAtScan, histVars, extVars>>

DevFill ==
  \E i \in running :
    /\ queue[i].kernel = "fill"
    /\ intensityHistogram' = [v \in DOMAIN intensityHistogram |-> 0]
    /\ Complete(i)
    /\ UNCHANGED <<dev_image_input, initialImageArray, cumulativeHistogram,
                   normalisedHistogram, intensityMap>>

DevRgb2grey ==
  \E i \in running :
    /\ queue[i].kernel = "rgb2grey"
    /\ \E lowered \in BOOLEAN :
         initialImageArray' =
           rgb2grey(dev_image_input, initialImageArray, queue[i].global, lowered)
    /\ Complete(i)
    /\ UNCHANGED <<dev_image_input, intensityHistogram, cumulativeHistogram,
                   normalisedHistogram, intensityMap>>

DevIdentity ==
  \E i \in running :
    /\ queue[i].kernel = "identity"
    /\ initialImageArray' = identity(dev_image_input, initialImageArray, queue[i].global)
    /\ Complete(i)
    /\ UNCHANGED <<dev_image_input, intensityHistogram, cumulativeHistogram,
                   normalisedHistogram, intensityMap>>

DevLocalGlobal ==
  \E i \in running :
    /\ queue[i].kernel = "local_global"
    /\ intensityHistogram' = local_global(initialImageArray, intensityHistogram, ImageSize)
    /\ Complete(i)
    /\ UNCHANGED <<dev_image_input, initialImageArray, cumulativeHistogram,
                   normalisedHistogram, intensityMap>>

DevCumulative ==
  \E i \in running :
    /\ queue[i].kernel = "cumulativeHistogram"
    /\ \E ls \in {l \in DeviceLocalSizes : queue[i].global % l = 0} :
         \E order \in GroupOrders(hist, ls) :
           LET r == cumulativeHistogramKernel(intensityHistogram, cumulativeHistogram,
                                              queue[i].global, ls, order)
           IN /\ intensityHistogram' = r.A
              /\ cumulativeHistogram' = r.B
    /\ Complete(i)
    /\ UNCHANGED <<dev_image_input, initialImageArray, normalisedHistogram, intensityMap>>

DevNormalise ==
  \E i \in running :
    /\ queue[i].kernel = "normalise"
    /\ \E undef \in GarbageVals :
         normalisedHistogram' =
           normalise(cumulativeHistogram, normalisedHistogram, queue[i].global, undef)
    /\ Complete(i)
    /\ UNCHANGED <<dev_image_input, initialImageArray, intensityHistogram,
                   cumulativeHistogram, intensityMap>>

\* kernel lookup(A, B, C) with intensityMap, bound to dev_image_input,
\* normalisedHistogram, intensityMap
DevLookupInPlace ==
  \E i \in running :
    /\ queue[i].kernel = "lookup"
    /\ \E undef \in GarbageVals :
         dev_image_input' =
           lookup(dev_image_input, normalisedHistogram, dev_image_input, queue[i].global, undef)
    /\ Complete(i)
    /\ UNCHANGED <<intensityMap, initialImageArray, intensityHistogram,
                   cumulativeHistogram, normalisedHistogram>>
DevLookup ==
  \E i \in running :
    /\ queue[i].kernel = "lookup"
    /\ \E undef \in GarbageVals :
         intensityMap' =
           lookup(dev_image_input, normalisedHistogram, intensityMap, queue[i].global, undef)
    /\ Complete(i)
    /\ UNCHANGED <<dev_image_input, initialImageArray, intensityHistogram,
                   cumulativeHistogram, normalisedHistogram>>

NextPipe ==
  \/ HostBuild
  \/ HostWriteImage
  \/ HostFill
  \/ HostReduce
  \/ HostHistogram
  \/ HostCumulative
  \/ HostNormalise
  \/ HostLookup
  \/ HostRead
  \/ HostOutput
  \/ DevStart
  \/ DevFill
  \/ DevRgb2grey
  \/ DevIdentity
  \/ DevLocalGlobal
  \/ DevCumulative
  \/ DevNormalise
  \/ DevLookup

SpecPipe == InitPipe /\ [][NextPipe]_vars

\* ------------------------------- normalise and lookup on drawn inputs
\* Bin counts the host's hist may be set to ("can be changed but must be a
\* multiple of 8").
HistConfigs == {8, 128, 256}

\* A non-decreasing array of h entries with two steps: a below index p, then
\* b, and c in its last entry.
StepArray(h, p, a, b, c) ==
  [i \in 0..(h - 1) |-> IF i < p THEN a ELSE IF i < h - 1 THEN b ELSE c]

LutCumulatives(h) ==
  {StepArray(h, p, a, b, c) :
     p \in {1, h \div 2}, a \in 0..1, b \in 1..2, c \in 2..3}

\* 16x16 single-channel images holding the samples v and 255 - v in turn.
LutImages ==
  {[i \in 0..255 |-> IF i % 2 = 0 THEN v ELSE 255 - v] : v \in {0, 7, 100, 127}}

InitLut ==
  /\ IdleHist
  /\ IdleExt
  /\ hist \in HistConfigs
  /\ image_input \in LutImages
  /\ dev_image_input = image_input
  /\ spectrum = 1
  /\ hostPc = "lut_histogram"
  /\ err = ""
  /\ queue = <<>>
  /\ running = {}
  /\ doneSet = {}
  /\ countsAtScan = <<>>
  /\ output_buffer = <<>>
  /\ output_image = <<>>
  /\ initialImageArray = image_input
  /\ intensityHistogram = [v \in 0..(hist - 1) |-> 0]
  /\ cumulativeHistogram \in LutCumulatives(hist)
  /\ \E junk \in GarbageVals :
       /\ normalisedHistogram = Uninitialised(hist, junk)
       /\ intensityMap = Uninitialised(ImageSize, junk)

\* The local_global kernel as main dispatches it: image_input.size()
\* work-items in groups of hist, on the zero-filled hist-entry count array.
LutHistogram ==
  /\ hostPc = "lut_histogram"
  /\ EnqueueAccepted(ImageSize, hist)
  /\ intensityHistogram' = local_global(initialImageArray, intensityHistogram, ImageSize)
  /\ hostPc' = "lut_normalise"
  /\ UNCHANGED <<image_input, spectrum, hist, err, output_buffer, output_image, queue, devVars,
                 dev_image_input, initialImageArray, cumulativeHistogram,
                 normalisedHistogram, intensityMap, histVars, extVars>>

\* The normalise kernel as main dispatches it: cl::NDRange(256) work-items on
\* the hist-entry buffers.
LutNormalise ==
  /\ hostPc = "lut_normalise"
  /\ \E undef \in GarbageVals :
       normalisedHistogram' =
         normalise(cumulativeHistogram, normalisedHistogram, NormaliseRange, undef)
  /\ hostPc' = "lut_lookup"
  /\ UNCHANGED <<image_input, spectrum, hist, err, output_buffer, output_image, queue, devVars,
                 dev_image_input, initialImageArray, intensityHistogram,
                 cumulativeHistogram, intensityMap, histVars, extVars>>

\* The lookup kernel as main dispatches it: one work-item per sample of the
\* original image.
LutLookup ==
  /\ hostPc = "lut_lookup"
  /\ \E undef \in GarbageVals :
       intensityMap' =
         lookup(dev_image_input, normalisedHistogram, intensityMap, ImageSize, undef)
  /\ hostPc' = "lut_done"
  /\ UNCHANGED <<image_input, spectrum, hist, err, output_buffer, output_image, queue, devVars,
                 dev_image_input, initialImageArray, intensityHistogram,
                 cumulativeHistogram, normalisedHistogram, histVars, extVars>>

NextLut == LutHistogram \/ LutNormalise \/ LutLookup

SpecLut == InitLut /\ [][NextLut]_vars

\* ------------------------------------------------- kernel-level: scan_bl
\* scan_bl run by one work-group of N work-items on an N-entry array, one
\* step per work-item and stride.
scanN == Cardinality(DOMAIN scanA)

\* Position on (re-)entering the up-sweep loop
\* "for (stride = 1; stride < N; stride *= 2)".
UpEnter(stride, bars) ==
  IF stride < scanN THEN [pc |-> "up", stride |-> stride, bars |-> bars]
                    ELSE [pc |-> "set", stride |-> 0, bars |-> bars]

\* Position on (re-)entering the down-sweep loop
\* "for (stride = N / 2; stride > 0; stride /= 2)".
DownEnter(stride, bars) ==
  IF stride > 0 THEN [pc |-> "down", stride |-> stride, bars |-> bars]
                ELSE [pc |-> "done", stride |-> 0, bars |-> bars]

InitScan ==
  /\ IdleHist
  /\ IdlePipe
  /\ IdleHs
  /\ IdleTable
  /\ \E n \in 1..MaxScan : scanA \in [0..(n - 1) -> 0..MaxCount]
  /\ scanA0 = scanA
  /\ scanPc = [id \in DOMAIN scanA |-> UpEnter(1, 0)]
  /\ blCumulative = <<>>
  /\ blNormalised = <<>>
  /\ blMap = <<>>

\* barrier(CLK_GLOBAL_MEM_FENCE): a work-item goes on when every work-item of
\* the group has reached the same barrier; bars counts the barriers passed.
NoBarrier(w) == TRUE
ScanArrived(w) ==
  \A v \in DOMAIN scanPc :
    \/ scanPc[v].bars > scanPc[w].bars
    \/ /\ scanPc[v].bars = scanPc[w].bars
       /\ scanPc[v].pc \in {"upbar", "setbar", "downbar"}

\* if (((id + 1) % (stride * 2)) == 0) A[id] += A[id - stride];
BlUpStep(a, id, stride) ==
  IF (id + 1) % (stride * 2) = 0
    THEN [a EXCEPT ![id] = a[id] + a[id - stride]]
    ELSE a

\* if (((id + 1) % (stride * 2)) == 0)
\*   { t = A[id]; A[id] += A[id - stride]; A[id - stride] = t; }
BlDownStep(a, id, stride) ==
  IF (id + 1) % (stride * 2) = 0
    THEN [a EXCEPT ![id] = a[id] + a[id - stride], ![id - stride] = a[id]]
    ELSE a

\* The up-sweep body with the barrier inside the conditional: a work-item
\* whose condition is false goes to the next round without a barrier.
blUpBarrierInsideIf(w) ==
  /\ scanPc[w].pc = "up"
  /\ scanA' = BlUpStep(scanA, w, scanPc[w].stride)
  /\ scanPc' = [scanPc EXCEPT ![w] =
                  IF (w + 1) % (scanPc[w].stride * 2) = 0
                    THEN [pc |-> "upbar", stride |-> scanPc[w].stride, bars |-> scanPc[w].bars]
                    ELSE UpEnter(2 * scanPc[w].stride, scanPc[w].bars)]
  /\ UNCHANGED <<scanA0, blCumulative, blNormalised, blMap, histVars, pipeVars, hsVars, tableVars>>

blUp(w) ==
  /\ scanPc[w].pc = "up"
  /\ scanA' = BlUpStep(scanA, w, scanPc[w].stride)
  /\ scanPc' = [scanPc EXCEPT ![w].pc = "upbar"]
  /\ UNCHANGED <<scanA0, blCumulative, blNormalised, blMap, histVars, pipeVars, hsVars, tableVars>>

blUpBarrier(w) ==
  /\ scanPc[w].pc = "upbar"
  /\ ScanArrived(w)
  /\ scanPc' = [scanPc EXCEPT ![w] = UpEnter(2 * scanPc[w].stride, scanPc[w].bars + 1)]
  /\ UNCHANGED <<scanA, scanA0, blCumulative, blNormalised, blMap, histVars, pipeVars, hsVars, tableVars>>

\* if (id == 0) A[N - 1] = 0;
blSet(w) ==
  /\ scanPc[w].pc = "set"
  /\ scanA' = IF w = 0 THEN [scanA EXCEPT ![scanN - 1] = 0] ELSE scanA
  /\ scanPc' = [scanPc EXCEPT ![w].pc = "setbar"]
  /\ UNCHANGED <<scanA0, blCumulative, blNormalised, blMap, histVars, pipeVars, hsVars, tableVars>>

blSetBarrier(w) ==
  /\ scanPc[w].pc = "setbar"
  /\ ScanArrived(w)
  /\ scanPc' = [scanPc EXCEPT ![w] = DownEnter(scanN \div 2, scanPc[w].bars + 1)]
  /\ UNCHANGED <<scanA, scanA0, blCumulative, blNormalised, blMap, histVars, pipeVars, hsVars, tableVars>>

blDown(w) ==
  /\ scanPc[w].pc = "down"
  /\ scanA' = BlDownStep(scanA, w, scanPc[w].stride)
  /\ scanPc' = [scanPc EXCEPT ![w].pc = "downbar"]
  /\ UNCHANGED <<scanA0, blCumulative, blNormalised, blMap, histVars, pipeVars, hsVars, tableVars>>

blDownBarrier(w) ==
  /\ scanPc[w].pc = "downbar"
  /\ ScanArrived(w)
  /\ scanPc' = [scanPc EXCEPT ![w] = DownEnter(scanPc[w].stride \div 2, scanPc[w].bars + 1)]
  /\ UNCHANGED <<scanA, scanA0, blCumulative, blNormalised, blMap, histVars, pipeVars, hsVars, tableVars>>

ScanDone ==
  /\ scanPc # <<>>
  /\ \A w \in DOMAIN scanPc : scanPc[w].pc = "done"

NextScan ==
  \/ \E w \in DOMAIN scanPc : blUp(w)
  \/ \E w \in DOMAIN scanPc : blUpBarrier(w)
  \/ \E w \in DOMAIN scanPc : blSet(w)
  \/ \E w \in DOMAIN scanPc : blSetBarrier(w)
  \/ \E w \in DOMAIN scanPc : blDown(w)
  \/ \E w \in DOMAIN scanPc : blDownBarrier(w)

SpecScan == InitScan /\ [][NextScan]_vars

\* ------------------------- inclusive and exclusive scan on the same image
\* One stride of scan_bl's up-sweep by all work-items: within a stride every
\* entry is written by at most one work-item.
BlUpRound(a, stride) == [i \in DOMAIN a |-> BlUpStep(a, i, stride)[i]]

\* One stride of the down-sweep: entry i is written by work-item i, or by
\* work-item i + stride, or by none.
BlDownRound(a, stride) ==
  [i \in DOMAIN a |->
     IF (i + 1) % (stride * 2) = 0 THEN BlDownStep(a, i, stride)[i]
     ELSE IF (i + stride) \in DOMAIN a /\ (i + stride + 1) % (stride * 2) = 0
       THEN BlDownStep(a, i + stride, stride)[i]
     ELSE a[i]]

RECURSIVE UpSweep(_, _, _)
UpSweep(a, stride, N) ==
  IF stride < N
    THEN LET next == BlUpRound(a, stride)
         IN IF next = next  \* TLC: compute the round's array before the next
              THEN UpSweep(next, 2 * stride, N)
              ELSE a
    ELSE a

RECURSIVE DownSweep(_, _)
DownSweep(a, stride) ==
  IF stride > 0
    THEN LET next == BlDownRound(a, stride)
         IN IF next = next  \* TLC: compute the round's array before the next
              THEN DownSweep(next, stride \div 2)
              ELSE a
    ELSE a

\* kernel scan_bl run by one work-group of N work-items on the N-entry
\* array a: up-sweep, A[N - 1] = 0, down-sweep.
scan_bl(a, N) == DownSweep([UpSweep(a, 1, N) EXCEPT ![N - 1] = 0], N \div 2)

\* An image whose last bin holds most of the samples.
Skewed == [i \in 0..255 |-> IF i < 23 THEN 0 ELSE IF i < 25 THEN 100 ELSE 255]

\* 16x16 and 32x16 single-channel images.
BlImages ==
  {img \in PipeImages : Cardinality(DOMAIN img) % 256 = 0}
    \cup {Uniform(256, 255), Skewed, TwoTone(256, 64)}

InitBl ==
  /\ IdleHist
  /\ IdleHs
  /\ IdleTable
  /\ spectrum = 1
  /\ image_input \in BlImages
  /\ dev_image_input = image_input
  /\ initialImageArray = image_input
  /\ hist = DefaultHist
  /\ hostPc = "bl_histogram"
  /\ err = ""
  /\ queue = <<>>
  /\ running = {}
  /\ doneSet = {}
  /\ countsAtScan = <<>>
  /\ output_buffer = <<>>
  /\ output_image = <<>>
  /\ intensityHistogram = [v \in 0..(hist - 1) |-> 0]
  /\ scanA = <<>>
  /\ scanA0 = <<>>
  /\ scanPc = <<>>
  /\ \E junk \in GarbageVals :
       /\ cumulativeHistogram = Uninitialised(hist, junk)
       /\ normalisedHistogram = Uninitialised(hist, junk)
       /\ intensityMap = Uninitialised(ImageSize, junk)
       /\ blCumulative = Uninitialised(hist, junk)
       /\ blNormalised = Uninitialised(hist, junk)
       /\ blMap = Uninitialised(ImageSize, junk)

\* The histogram stage on the zero-filled count array.
BlHistogram ==
  /\ hostPc = "bl_histogram"
  /\ intensityHistogram' = local_global(initialImageArray, intensityHistogram, ImageSize)
  /\ hostPc' = "bl_scan_bl"
  /\ UNCHANGED <<image_input, spectrum, hist, err, output_buffer, output_image, queue, devVars,
                 dev_image_input, initialImageArray, cumulativeHistogram,
                 normalisedHistogram, intensityMap, histVars, extVars>>

\* The exclusive path: scan_bl, one work-item per bin, on a copy of the
\* histogram.
BlScanExclusive ==
  /\ hostPc = "bl_scan_bl"
  /\ blCumulative' = scan_bl(intensityHistogram, hist)
  /\ countsAtScan' = intensityHistogram
  /\ hostPc' = "bl_scan"
  /\ UNCHANGED <<image_input, spectrum, hist, err, output_buffer, output_image, queue,
                 running, doneSet, bufVars, histVars,
                 scanA, scanA0, scanPc, blNormalised, blMap,
                 hsVars, tableVars>>

\* The inclusive path: kernel cumulativeHistogram as main dispatches it.
BlScanInclusive ==
  /\ hostPc = "bl_scan"
  /\ \E ls \in {l \in DeviceLocalSizes : histogramSize % l = 0} :
       \E order \in GroupOrders(hist, ls) :
         LET r == cumulativeHistogramKernel(intensityHistogram, cumulativeHistogram,
                                            histogramSize, ls, order)
         IN /\ intensityHistogram' = r.A
            /\ cumulativeHistogram' = r.B
  /\ hostPc' = "bl_normalise"
  /\ UNCHANGED <<image_input, spectrum, hist, err, output_buffer, output_image, queue, devVars,
                 dev_image_input, initialImageArray, normalisedHistogram, intensityMap,
                 histVars, extVars>>

\* The normalise kernel on either cumulative array.
BlNormalise ==
  /\ hostPc = "bl_normalise"
  /\ \E undef \in GarbageVals :
       /\ normalisedHistogram' =
            normalise(cumulativeHistogram, normalisedHistogram, NormaliseRange, undef)
       /\ blNormalised' = normalise(blCumulative, blNormalised, NormaliseRange, undef)
  /\ hostPc' = "bl_lookup"
  /\ UNCHANGED <<image_input, spectrum, hist, err, output_buffer, output_image, queue, devVars,
                 dev_image_input, initialImageArray, intensityHistogram,
                 cumulativeHistogram, intensityMap, histVars,
                 scanA, scanA0, scanPc, blCumulative, blMap,
                 hsVars, tableVars>>

\* The lookup kernel on either normalised array.
BlLookup ==
  /\ hostPc = "bl_lookup"
  /\ \E undef \in GarbageVals :
       /\ intensityMap' =
            lookup(dev_image_input, normalisedHistogram, intensityMap, ImageSize, undef)
       /\ blMap' = lookup(dev_image_input, blNormalised, blMap, ImageSize, undef)
  /\ hostPc' = "bl_done"
  /\ UNCHANGED <<image_input, spectrum, hist, err, output_buffer, output_image, queue, devVars,
                 dev_image_input, initialImageArray, intensityHistogram,
                 cumulativeHistogram, normalisedHistogram, histVars,
                 scanA, scanA0, scanPc, blCumulative, blNormalised,
                 hsVars, tableVars>>

NextBl ==
  \/ BlHistogram
  \/ BlScanExclusive
  \/ BlScanInclusive
  \/ BlNormalise
  \/ BlLookup

SpecBl == InitBl /\ [][NextBl]_vars

\* ------------------------------------------------------- claims C1 .. C3
NumGroups == IF lsize = 0 THEN 0 ELSE gsize \div lsize

\* C1: once every work-item of the naive kernel has finished, each bin of the
\* (initially zero) count array holds the number of samples equal to that
\* bin's value, whatever the order of the atomic increments was.
C1_NaiveCountsExact ==
  NaiveDone => \A v \in Bins : B[v] = CountOf(A, A_size, v)

\* Witness of C1: the kernel has finished and two work-items incremented the
\* same bin.
C1_Witness ==
  /\ launch = "histogram"
  /\ NaiveDone
  /\ \E v \in Bins : B[v] >= 2

\* C2: the bin counts left by the naive kernel sum to the number of samples,
\* and so do the bin counts left by the partitioned kernel when the global
\* array was all zero before the launch, for every division of its
\* work-items into groups.
C2_CountsSumToN ==
  /\ NaiveDone => SumTo(B, histBins) = A_size
  /\ (PartitionedDone /\ \A v \in Bins : H0[v] = 0) => SumTo(H, histBins) = A_size

\* Witness of C2: the partitioned kernel has finished, it ran in several
\* groups, and there were at least two samples.
C2_Witness ==
  /\ PartitionedDone
  /\ \A v \in Bins : H0[v] = 0
  /\ NumGroups >= 2
  /\ A_size >= 2
  /\ SumTo(H, histBins) = A_size

\* C3: on the same samples and a zeroed global array the naive and the
\* partitioned kernel end with the same count array, bin for bin.
C3_StrategiesAgree ==
  (PartitionedDone /\ \A v \in Bins : H0[v] = 0) => \A v \in Bins : H[v] = B[v]

\* Witness of C3: both kernels have finished, the partitioned one in several
\* groups whose local arrays held junk before they were zeroed, and some bin
\* was counted into by two different groups.
C3_Witness ==
  /\ PartitionedDone
  /\ \A v \in Bins : H0[v] = 0
  /\ NumGroups >= 2
  /\ \E v \in Bins :
       /\ H[v] >= 2
       /\ \E g1, g2 \in DOMAIN LH : g1 # g2 /\ LH[g1][v] >= 1 /\ LH[g2][v] >= 1

\* --------------------------------------------- claims C4, C7 .. C10
KernelOf(i) == queue[i].kernel
Completed(kernel) == \E i \in doneSet : KernelOf(i) = kernel
Begun(kernel) == \E i \in running \cup doneSet : KernelOf(i) = kernel

\* C4: once the cumulative-histogram stage has completed, the buffer the
\* normalise kernel reads holds the inclusive prefix sums of the histogram the
\* stage was given: its last entry is the number of samples and every entry
\* after the first is its predecessor plus that bin's count.
C4_CumulativeIsInclusiveScan ==
  Completed("cumulativeHistogram") =>
    /\ cumulativeHistogram[hist - 1] = ImageSize
    /\ \A i \in 1..(hist - 1) :
         cumulativeHistogram[i] = cumulativeHistogram[i - 1] + countsAtScan[i]

\* The 8x8 image of claim C7: 32 samples of value 10 and 32 of value 200.
C7Image ==
  /\ spectrum = 1
  /\ ImageSize = 64
  /\ CountOf(image_input, 64, 10) = 32
  /\ CountOf(image_input, 64, 200) = 32

\* C7: for that image no dispatch of the run is refused; the
\* histogram stage leaves counts[10] = counts[200] = 32 and 0 elsewhere, the
\* normalise stage leaves normalized[10] = 127 and normalized[200] = 255, and
\* the output image holds 127 where the input held 10 and 255 where it held
\* 200.
C7_EndToEnd8x8 ==
  C7Image =>
    /\ err # "CL_INVALID_WORK_GROUP_SIZE"
    /\ (Completed("local_global") /\ ~Begun("cumulativeHistogram")) =>
         \A v \in 0..(hist - 1) :
           intensityHistogram[v] = IF v \in {10, 200} THEN 32 ELSE 0
    /\ Completed("normalise") =>
         normalisedHistogram[10] = 127 /\ normalisedHistogram[200] = 255
    /\ hostPc = "done" =>
         \A i \in DOMAIN image_input :
           output_image[i] = IF image_input[i] = 10 THEN 127 ELSE 255

\* C8: for a non-empty image whose samples all equal 128, every sample of
\* the output image equals 255.
C8_Uniform128Gives255 ==
  (hostPc = "done" /\ \A i \in DOMAIN image_input : image_input[i] = 128) =>
    \A i \in DOMAIN image_input : output_image[i] = 255

\* The commands in the order main enqueues them: the zero-fill, then the
\* five stages.
StageOrder ==
  <<"fill", IF spectrum = 3 THEN "rgb2grey" ELSE "identity", "local_global",
    "cumulativeHistogram", "normalise", "lookup">>

\* C9: the stages execute in the order reduction, histogram, scan,
\* normalisation, remap; a stage starts only when every stage before it has
\* completed, and two stages never execute at the same time.
C9_StagesInOrderNoOverlap ==
  /\ \A i \in 1..Len(queue) : KernelOf(i) = StageOrder[i]
  /\ Cardinality(running) <= 1
  /\ \A i \in running \cup doneSet : \A j \in 1..(i - 1) : j \in doneSet

\* Witness of C9: the remap stage is executing and the four stages before it
\* have completed.
C9_Witness ==
  /\ Len(queue) = 6
  /\ running = {6}
  /\ doneSet = 1..5

\* C10 as stated: whenever a stage has been enqueued, the stage before it has
\* completed (the host waited for it).
C10_HostWaitsBeforeEnqueue ==
  \A i \in 3..Len(queue) : (i - 1) \in doneSet

\* C10 as amended: the host enqueues the five stages without waiting for the
\* device; it waits only in the blocking read of the result, which returns
\* after all five stages have completed.
C10_HostWaitsOnlyAtRead ==
  hostPc \in {"output", "done"} =>
    /\ Len(queue) = 6
    /\ \A i \in 2..6 : i \in doneSet

\* Witness of C10: the host has created the output image, after the blocking
\* read returned with all five stages completed.
C10_Witness ==
  /\ hostPc = "done"
  /\ output_image # <<>>
  /\ doneSet = 1..6

\* ------------------------------------------------------- claims C5, C6
\* C5: for every configured bin count and every cumulative array whose last
\* entry is positive, the normalise stage leaves
\* normalized[i] = floor(cumulative[i] * 255 / cumulative[hist - 1]) in every
\* entry i of the hist-entry array.
C5_NormaliseDividesByLastEntry ==
  (hostPc \in {"lut_lookup", "lut_done"} /\ cumulativeHistogram[hist - 1] > 0) =>
    \A i \in 0..(hist - 1) :
      normalisedHistogram[i] =
        (cumulativeHistogram[i] * 255) \div cumulativeHistogram[hist - 1]

\* Index of the bin whose half-open range holds the sample, for the uniform
\* boundaries lo_i = i * (256 / hist).
bin_of(sample) == sample \div (256 \div hist)

\* C6: for every configured bin count and every sample of the original image,
\* the lookup stage writes normalized[bin_of(sample)] to the same index of the
\* output buffer.
C6_LookupWritesBinValue ==
  hostPc = "lut_done" =>
    \A id \in DOMAIN dev_image_input :
      intensityMap[id] = normalisedHistogram[bin_of(dev_image_input[id])]

\* ------------------------------------------------ claims C11, C17 .. C20
\* C11: the run fails closed: a run that ended in the error handler (a failed
\* build, kernel argument or enqueue) has created no output image, and an
\* output image exists only when no error was raised, all five stages were
\* dispatched and completed, and the blocking read has returned.
C11_FailsClosed ==
  /\ (hostPc = "error" \/ err # "") => output_image = <<>>
  /\ output_image # <<>> =>
       /\ hostPc = "done"
       /\ Len(queue) = 6
       /\ AllCompleted

\* Witness of C11: a device error was raised after three commands had been
\* enqueued and some had run; there is no output image.
C11_Witness ==
  /\ hostPc = "error"
  /\ err \in DeviceFaults
  /\ Len(queue) = 3
  /\ doneSet # {}
  /\ output_image = <<>>

\* Number of pixels of a 3-channel image.
Pixels == ImageSize \div 3

\* C17 as stated: for a 3-channel image every pixel of the output carries the
\* same value in its three channels, the normalised value of the bin of the
\* pixel's intensity.
C17_ChannelsCarryIntensityValue ==
  (spectrum = 3 /\ hostPc = "done") =>
    \A p \in 0..(Pixels - 1) : \A c \in 0..2 :
      output_image[p + c * Pixels] = normalisedHistogram[initialImageArray[p]]

\* C17 as amended: for a 3-channel image every sample of the output, channel
\* by channel, is the normalised value (stored in 8 bits) of that sample's
\* own value in the original image.
C17_EachSampleMappedByItself ==
  (spectrum = 3 /\ hostPc = "done") =>
    \A i \in DOMAIN image_input :
      output_image[i] = normalisedHistogram[image_input[i]] % 256

\* Witness of C17: a 3-channel run has finished and some output pixel has
\* different values in its red and green channels.
C17_Witness ==
  /\ spectrum = 3
  /\ hostPc = "done"
  /\ \E p \in 0..(Pixels - 1) : output_image[p] # output_image[p + Pixels]

\* C18 as stated: for a 3-channel image the bin counts the histogram stage
\* leaves sum to the number of pixels.
C18_CountsSumToPixels ==
  (spectrum = 3 /\ Completed("local_global") /\ ~Begun("cumulativeHistogram")) =>
    SumTo(intensityHistogram, hist) = Pixels

\* C18 as amended: for a 3-channel image the bin counts sum to the number of
\* samples, three times the number of pixels, and every bin holds three times
\* the number of pixels of that intensity.
C18_CountsSumToSamples ==
  (spectrum = 3 /\ Completed("local_global") /\ ~Begun("cumulativeHistogram")) =>
    /\ SumTo(intensityHistogram, hist) = 3 * Pixels
    /\ \A v \in 0..(hist - 1) :
         intensityHistogram[v] = 3 * CountOf(initialImageArray, Pixels, v)

\* Witness of C18: the histogram stage has completed on a 16x16 3-channel
\* image and the scan has not begun.
C18_Witness ==
  /\ spectrum = 3
  /\ Pixels = 256
  /\ Completed("local_global")
  /\ ~Begun("cumulativeHistogram")
  /\ SumTo(intensityHistogram, hist) = 768

\* C19 as stated: the samples of pixel p are read at positions 3p, 3p+1, 3p+2
\* and the reduced value of the pixel is exactly
\* (21260 R + 71526 G + 7220 B) div 100000.
C19_InterleavedExactLuma ==
  (spectrum = 3 /\ Completed("rgb2grey")) =>
    \A p \in 0..(Pixels - 1) :
      initialImageArray[p] =
        (21260 * dev_image_input[3 * p] + 71526 * dev_image_input[3 * p + 1]
           + 7220 * dev_image_input[3 * p + 2]) \div 100000

\* C19 as amended: the samples of pixel p are read at positions p, N + p and
\* 2N + p (one plane per channel); the reduced value is
\* (21260 R + 71526 G + 7220 B) div 100000, or one less where that quotient is
\* exact and positive, and it is written to the same three positions.
C19_PlanarLuma ==
  (spectrum = 3 /\ Completed("rgb2grey")) =>
    \A p \in 0..(Pixels - 1) :
      LET sum == 21260 * dev_image_input[p] + 71526 * dev_image_input[p + Pixels]
                   + 7220 * dev_image_input[p + 2 * Pixels]
          value == initialImageArray[p]
      IN /\ \/ value = sum \div 100000
            \/ sum > 0 /\ sum % 100000 = 0 /\ value = sum \div 100000 - 1
         /\ initialImageArray[p + Pixels] = value
         /\ initialImageArray[p + 2 * Pixels] = value

\* Witness of C19: the reducer has run on a 16x16 image and a pixel of colour
\* 40, 200, 20 was given 152, one less than the exact 153.
C19_Witness ==
  /\ spectrum = 3
  /\ Pixels = 256
  /\ Completed("rgb2grey")
  /\ \E p \in 0..(Pixels - 1) :
       /\ dev_image_input[p] = 40
       /\ dev_image_input[p + Pixels] = 200
       /\ dev_image_input[p + 2 * Pixels] = 20
       /\ initialImageArray[p] = 152

\* C20: for a single-channel image the reduced buffer equals the input buffer
\* sample for sample.
C20_IdentityCopies ==
  (spectrum = 1 /\ Completed("identity")) =>
    \A i \in DOMAIN image_input : initialImageArray[i] = image_input[i]

\* Witness of C20: the copy has completed on an image whose samples are not
\* all the same.
C20_Witness ==
  /\ spectrum = 1
  /\ Completed("identity")
  /\ \E i, j \in DOMAIN image_input : initialImageArray[i] # initialImageArray[j]

C13_CountsPerBinRange ==
  hostPc \in {"lut_normalise", "lut_lookup", "lut_done"} =>
    \A i \in 0..(hist - 1) :
      intensityHistogram[i] =
        Cardinality({id \in DOMAIN initialImageArray :
                       bin_of(initialImageArray[id]) = i})

\* --------------------------------------------------------- claim C12
IsPowerOfTwo(n) == \E k \in 0..n : 2 ^ k = n

\* C12: when scan_bl has finished on an array whose length is a power of
\* two, entry 0 is 0 and every later entry is its predecessor plus the count
\* the array held before the scan at the predecessor's index.
C12_BlellochExclusiveScan ==
  (ScanDone /\ IsPowerOfTwo(scanN)) =>
    /\ scanA[0] = 0
    /\ \A i \in 1..(scanN - 1) : scanA[i] = scanA[i - 1] + scanA0[i - 1]

\* Witness of C12: scan_bl has finished on four counts that are not all
\* equal, none of them zero.
C12_Witness ==
  /\ ScanDone
  /\ scanN = 4
  /\ \A i \in 0..3 : scanA0[i] > 0
  /\ scanA0[0] # scanA0[1]
  /\ scanA[3] = scanA0[0] + scanA0[1] + scanA0[2]

\* ---------------------------------------------------- claims C15, C16
\* Both scans have run.
Scanned == hostPc \in {"bl_normalise", "bl_lookup", "bl_done"}

\* The inclusive array holds the prefix sums of the counts.
InclusiveIsPrefixSums ==
  \A i \in 0..(hist - 1) : cumulativeHistogram[i] = SumTo(countsAtScan, i + 1)

\* C15: for a non-empty image the normaliser's divisor, the last entry of the
\* cumulative array, is not zero, whether the array comes from the inclusive
\* or from the exclusive scan.
C15_DivisorNonZero ==
  (Scanned /\ ImageSize > 0) =>
    /\ cumulativeHistogram[hist - 1] # 0
    /\ blCumulative[hist - 1] # 0

ChannelLevels == {0, 1, 40, 127, 128, 200, 254, 255}

\* The int the lookup kernel holds for sample index id before it is stored
\* as uchar: lookup_value = B[A[id]].
lookup_value(id) == normalisedHistogram[dev_image_input[id]]

\* C21: every value the pipeline stores into an 8-bit sample buffer lies in
\* 0..255 before the store: the luma of every colour, however the build
\* rounds it, and, once the normalise stage has completed, the lookup value
\* of every sample of the image.
C21_StoresWithinByte ==
  /\ \A red, green, blue \in ChannelLevels, lowered \in BOOLEAN :
       Luma(red, green, blue, lowered) \in 0..255
  /\ Completed("rgb2grey") =>
       \A id \in 0..(Pixels - 1), lowered \in BOOLEAN :
         Luma(dev_image_input[id], dev_image_input[id + Pixels],
              dev_image_input[id + 2 * Pixels], lowered) \in 0..255
  /\ (Completed("normalise") /\ dev_image_input = image_input) =>
       \A id \in DOMAIN image_input : lookup_value(id) \in 0..255

\* ------------------------------------------------------------ claim C22
\* The array does not decrease from any entry to the next.
NonDecreasing(arr, n) == \A i \in 1..(n - 1) : arr[i - 1] <= arr[i]

\* C22: for every configured bin count, whenever the last entry of the
\* cumulative array is positive and the array is non-decreasing, the largest
\* entry of the normalised array the normalise stage leaves is 255.
C22_NormalisedMaxIs255 ==
  (hostPc \in {"lut_lookup", "lut_done"} /\ cumulativeHistogram[hist - 1] > 0
     /\ NonDecreasing(cumulativeHistogram, hist)) =>
    /\ \E i \in 0..(hist - 1) : normalisedHistogram[i] = 255
    /\ \A i \in 0..(hist - 1) : normalisedHistogram[i] <= 255

\* ------------------------------------------------ the host's bin table
\* Bin counts the host's hist is set to: "int hist = 4" and other values
\* up to 256, divisors of 256 and not.
TableHists == {1, 2, 3, 4, 8, 16, 32, 64, 100, 128, 256}

\* int increments = 256 / hist
HalvedIncrement == 128 \div hist
increments == 256 \div hist

\* vector<int> binvals(hist): hist entries, all zero, before the loop
InitTable ==
  /\ IdleHist
  /\ IdleBl
  /\ IdleHs
  /\ hist \in TableHists
  /\ binvals = [i \in 0..(hist - 1) |-> 0]
  /\ binI = 0
  /\ hostPc = "binvals_loop"
  /\ image_input = <<>> /\ spectrum = 0 /\ err = "" /\ queue = <<>>
  /\ running = {} /\ doneSet = {} /\ countsAtScan = <<>>
  /\ dev_image_input = <<>> /\ initialImageArray = <<>>
  /\ intensityHistogram = <<>> /\ cumulativeHistogram = <<>>
  /\ normalisedHistogram = <<>> /\ intensityMap = <<>>
  /\ output_buffer = <<>> /\ output_image = <<>>

\* for (size_t i = 0; i < hist; i++) binvals[i] = i * increments;
\* one iteration
BinvalsStep ==
  /\ hostPc = "binvals_loop"
  /\ binI < hist
  /\ binvals' = [binvals EXCEPT ![binI] = binI * increments]
  /\ binI' = binI + 1
  /\ UNCHANGED <<hostVars, queue, devVars, bufVars, histVars, scanA, scanA0, scanPc,
                 blCumulative, blNormalised, blMap, hsVars>>

\* the loop's exit: the table is what enqueueWriteBuffer(binsizeBuffer, ...)
\* then copies to the device
BinvalsExit ==
  /\ hostPc = "binvals_loop"
  /\ binI >= hist
  /\ hostPc' = "binvals_done"
  /\ UNCHANGED <<image_input, spectrum, hist, err, output_buffer, output_image, queue,
                 devVars, bufVars, histVars, extVars>>

NextTable == BinvalsStep \/ BinvalsExit

SpecTable == InitTable /\ [][NextTable]_vars

\* ------------------------------------------------------------ claim C23
\* Number of entries of the table.
TableLen == Cardinality(DOMAIN binvals)

\* C23 as stated: the table the host has built for bin count hist has
\* hist + 1 entries, starts with 0, is strictly increasing and ends with 256.
C23_TableHasUpperEnd ==
  hostPc = "binvals_done" =>
    /\ TableLen = hist + 1
    /\ binvals[0] = 0
    /\ \A i \in 1..(TableLen - 1) : binvals[i - 1] < binvals[i]
    /\ binvals[TableLen - 1] = 256

\* C23 as amended: the table the host has built for bin count hist (1..256)
\* has hist entries, the lower ends of the bins: entry i is
\* i * (256 div hist), so it starts with 0, is strictly increasing, and its
\* last entry is (hist - 1) * (256 div hist), which is below 256.
C23_TableOfLowerEnds ==
  hostPc = "binvals_done" =>
    /\ TableLen = hist
    /\ binvals[0] = 0
    /\ \A i \in 1..(hist - 1) : binvals[i - 1] < binvals[i]
    /\ \A i \in 0..(hist - 1) : binvals[i] = i * (256 \div hist)
    /\ binvals[hist - 1] < 256

\* Witness of C23: the table built for hist = 4 is 0, 64, 128, 192.
C23_Witness ==
  /\ hostPc = "binvals_done"
  /\ hist = 4
  /\ binvals = [i \in 0..3 |-> 64 * i]

\* ------------------------------ kernel-level: cumulativeHistogram
\* The kernel run work-item by work-item.  hsA and hsB are the buffers passed
\* as first and second argument; every work-item holds its own pointers A and
\* B to them and swaps them after each round.
scanVars == <<scanA, scanA0, scanPc, blCumulative, blNormalised, blMap>>

\* Number of entries of the two buffers.
hsM == Cardinality(DOMAIN hsA0)

\* Array lengths for which the kernel is dispatched as main dispatches it,
\* with sizeof(mytype) work-items per entry.
HostScanLens == {1, 2}

\* Position on (re-)entering "for (stride = 1; stride < N; stride *= 2)".
HsEnterUnswapped(stride, swapped) ==
  [pc |-> IF stride < hsN THEN "step" ELSE "done", stride |-> stride, swapped |-> FALSE]
HsEnter(stride, swapped) ==
  [pc |-> IF stride < hsN THEN "step" ELSE "done", stride |-> stride, swapped |-> swapped]

\* Position of a work-item that has run all the rounds of the loop.
RECURSIVE HsExit(_, _)
HsExit(stride, swapped) ==
  IF stride < hsN THEN HsExit(2 * stride, ~swapped) ELSE HsEnter(stride, swapped)

\* The dispatches: one work-item per entry in a single work-group, or main's
\* cl::NDRange(histogramSize) work-items with cl::NullRange as local size,
\* for which the device chooses the size of the work-groups.  The second
\* buffer holds whatever its memory held.
InitHs ==
  /\ IdleHist
  /\ IdlePipe
  /\ IdleBl
  /\ IdleTable
  /\ \E m \in 1..MaxScan :
       /\ hsA0 \in [0..(m - 1) -> 0..MaxCount]
       /\ \E junk \in GarbageVals : hsB = Uninitialised(m, junk)
       /\ \/ hsN = m /\ hsLs = m
          \/ /\ m \in HostScanLens
             /\ hsN = SizeofMytype * m
             /\ hsLs \in Divisors(hsN)
  /\ hsA = hsA0
  /\ hsPc = [id \in 0..(hsN - 1) |-> HsEnter(1, FALSE)]

hsGroupOf(w) == w \div hsLs

\* The work-group holds a work-item whose id is an index of the buffers.
HsInside(g) == g * hsLs < hsM

\* B[id] = A[id]; if (id >= stride) B[id] = A[id] + A[id - stride];
\* a work-item whose id is not an index of the buffers reads and writes
\* outside them.
hsStep(w) ==
  /\ hsPc[w].pc = "step"
  /\ HsInside(hsGroupOf(w))
  /\ LET stride == hsPc[w].stride
         src == IF hsPc[w].swapped THEN hsB ELSE hsA
         value == IF w >= stride THEN src[w] + src[w - stride] ELSE src[w]
     IN IF w < hsM
          THEN IF hsPc[w].swapped
                 THEN hsA' = [hsA EXCEPT ![w] = value] /\ hsB' = hsB
                 ELSE hsB' = [hsB EXCEPT ![w] = value] /\ hsA' = hsA
          ELSE hsA' = hsA /\ hsB' = hsB
  /\ hsPc' = [hsPc EXCEPT ![w].pc = "barrier"]
  /\ UNCHANGED <<hsA0, hsN, hsLs, histVars, pipeVars, scanVars, tableVars>>

\* barrier(CLK_GLOBAL_MEM_FENCE): every work-item of the work-group has
\* arrived at the barrier of this round.
HsArrived(w) ==
  \A v \in DOMAIN hsPc :
    hsGroupOf(v) = hsGroupOf(w) =>
      \/ hsPc[v].stride > hsPc[w].stride
      \/ hsPc[v].stride = hsPc[w].stride /\ hsPc[v].pc = "barrier"

\* barrier; C = A; A = B; B = C; stride *= 2
hsBarrier(w) ==
  /\ hsPc[w].pc = "barrier"
  /\ HsArrived(w)
  /\ hsPc' = [hsPc EXCEPT ![w] = HsEnter(2 * hsPc[w].stride, ~hsPc[w].swapped)]
  /\ UNCHANGED <<hsA, hsB, hsA0, hsN, hsLs, histVars, pipeVars, scanVars, tableVars>>

\* A work-group none of whose work-items has an id inside the buffers: it
\* runs all its rounds on memory outside them, which the model does not hold,
\* and no other work-group waits for it.
hsOutside(g) ==
  /\ ~HsInside(g)
  /\ \E w \in DOMAIN hsPc : hsGroupOf(w) = g /\ hsPc[w].pc # "done"
  /\ hsPc' = [w \in DOMAIN hsPc |->
                IF hsGroupOf(w) = g THEN HsExit(1, FALSE) ELSE hsPc[w]]
  /\ UNCHANGED <<hsA, hsB, hsA0, hsN, hsLs, histVars, pipeVars, scanVars, tableVars>>

HsDone == hsPc # <<>> /\ \A w \in DOMAIN hsPc : hsPc[w].pc = "done"

NextHs ==
  \/ \E w \in DOMAIN hsPc : hsStep(w)
  \/ \E w \in DOMAIN hsPc : hsBarrier(w)
  \/ \E g \in 0..(hsN - 1) : hsOutside(g)

SpecHs == InitHs /\ [][NextHs]_vars

\* ---------------------------------------------------- claims C24 .. C27
\* The kernel was dispatched with one work-item per entry, in one work-group.
OnePerEntry == hsN = hsM /\ hsLs = hsN

\* The kernel was dispatched as main dispatches it.
HostDispatch == hsN = SizeofMytype * hsM

\* C24: when the kernel was dispatched with exactly one work-item per entry
\* in one work-group and every work-item has returned, the buffer passed as
\* second argument holds in every entry i the sum of the counts 0..i.
C24_SecondArgumentHoldsScan ==
  (HsDone /\ OnePerEntry) =>
    \A i \in DOMAIN hsB : hsB[i] = SumTo(hsA0, i + 1)

\* The strides of the rounds the dispatched kernel runs.
HsStrides == {s \in 1..hsN : IsPowerOfTwo(s) /\ s < hsN}

\* The work-item has done the reads and the write of the round of this
\* stride.
HsWritten(w, stride) ==
  \/ hsPc[w].stride > stride
  \/ hsPc[w].stride = stride /\ hsPc[w].pc # "step"

\* C25: in the kernel as main dispatches it, however the device divides the
\* work-items into work-groups, no work-item of the array has done the reads
\* of a round while a work-item of the array has not finished its write of
\* the round before.
C25_RoundsSeparated ==
  HostDispatch =>
    \A w, v \in DOMAIN hsA : \A s \in HsStrides :
      (2 * s \in HsStrides /\ HsWritten(w, 2 * s)) => HsWritten(v, s)

\* The buffer indices the work-items of a dispatch of global work-items
\* read or write: cumulativeHistogram's work-item id uses id and id - stride,
\* normalise's uses id and 255.
IndicesTouched(kernel, global) ==
  LET ids == 0..(global - 1)
      strides == {s \in 1..(global - 1) : IsPowerOfTwo(s)}
  IN CASE kernel = "cumulativeHistogram" ->
            ids \cup {d \in ids : \E id \in ids, s \in strides : id >= s /\ d = id - s}
       [] kernel = "normalise" -> ids \cup {255}
       [] OTHER -> {}

\* C26: every dispatch of the scan and of the normalise kernel main has
\* enqueued has exactly one work-item per bin, and every index its
\* work-items read or write is an index of the hist-entry buffers.
C26_OneWorkerPerBinInRange ==
  \A i \in 1..Len(queue) :
    KernelOf(i) \in {"cumulativeHistogram", "normalise"} =>
      /\ queue[i].global = hist
      /\ IndicesTouched(KernelOf(i), queue[i].global) \subseteq 0..(hist - 1)

\* ceil(log2 n): the least k with 2^k >= n.
RECURSIVE CeilLog2(_)
CeilLog2(n) == IF n <= 1 THEN 0 ELSE 1 + CeilLog2((n + 1) \div 2)

\* Rounds a work-item has begun: its stride is 2 to that power.
RoundsBegun(w) == CeilLog2(hsPc[w].stride)

\* C27: in the kernel as main dispatches it over an array of hsM entries,
\* every round a work-item has run has a stride 1, 2, 4, ... below hsM, and
\* the work-item returns after exactly ceil(log2 hsM) rounds.
C27_RoundsAreLogOfLength ==
  HostDispatch =>
    \A w \in DOMAIN hsPc :
      /\ hsPc[w].pc = "barrier" => hsPc[w].stride < hsM
      /\ hsPc[w].pc = "done" => RoundsBegun(w) = CeilLog2(hsM)

\* ---------------------------------------------------- claims C28, C29
\* A partitioned-histogram kernel is running or has run.
Partitioned == launch \in {"local_global", "my_kernels.local_global"}

\* Work-items of a work-group.
GroupMembers(g) == {w \in DOMAIN pcP : groupOf(w) = g}

\* The indices of the samples the work-item has counted into its group's
\* local array so far.
Counted(w) ==
  IF launch = "local_global"
    THEN {i \in 0..(A_size - 1) :
            /\ i % gsize = w
            /\ \/ PhaseOf(pcP[w].pc) > 2
               \/ pcP[w].pc = "count" /\ i < pcP[w].i}
    ELSE {i \in {w} : PhaseOf(pcP[w].pc) > 2}

\* C28: in both partitioned-histogram kernels and in every work-group, no
\* work-item is at or past its increments while another of the group is
\* still before the first barrier, and from then on every entry of the
\* group's local array holds exactly the increments made to it: every entry
\* had been set to zero before the first increment.
C28_LocalZeroedBeforeIncrements ==
  Partitioned =>
    \A g \in DOMAIN LH :
      (\E w \in GroupMembers(g) : PhaseOf(pcP[w].pc) >= 2) =>
        /\ \A w \in GroupMembers(g) : PhaseOf(pcP[w].pc) >= 1
        /\ \A v \in Bins :
             LH[g][v] = Cardinality({i \in UNION {Counted(w) : w \in GroupMembers(g)} :
                                       A[i] = v})

\* What the local arrays of all the work-groups hold for a bin, together.
LocalTotal(v) == SumTo([g \in 0..(NumGroups - 1) |-> LH[g][v]], NumGroups)

\* Every work-item of the kernel has returned.
KernelDone == Partitioned /\ \A w \in DOMAIN pcP : pcP[w].pc = "done"

\* C29: in both partitioned-histogram kernels, no work-item adds to the
\* global array while a work-item of its group has not finished its local
\* increments, and when the kernel has finished the global array holds, for
\* every bin, what it held before plus the final local count of every
\* work-group, each added once.
C29_LocalCountsAddedOnce ==
  Partitioned =>
    /\ \A g \in DOMAIN LH :
         (\E w \in GroupMembers(g) : PhaseOf(pcP[w].pc) >= 4) =>
           \A w \in GroupMembers(g) : PhaseOf(pcP[w].pc) >= 3
    /\ KernelDone => \A v \in Bins : H[v] = H0[v] + LocalTotal(v)

\* ------------------------------------------------------------ claim C30
\* The device has started the histogram stage's command and not completed it.
HistogramStageRunning == \E i \in running : KernelOf(i) = "local_global"

\* C30: when the device starts the histogram stage, the fill main enqueued
\* before it has completed and the global count array is all zeros.
C30_CountsZeroAtHistogramStart ==
  HistogramStageRunning =>
    /\ Completed("fill")
    /\ \A v \in DOMAIN intensityHistogram : intensityHistogram[v] = 0

\* Witness of C30: the histogram stage has started on the zeroed array in a
\* run whose buffers held non-zero values when they were created.
C30_Witness ==
  /\ HistogramStageRunning
  /\ \A v \in DOMAIN intensityHistogram : intensityHistogram[v] = 0
  /\ cumulativeHistogram[0] # 0

\* ------------------------------------------------------------ claim C31
\* The device completes a command of this kernel in this step.
StageStep(kernel) ==
  \E i \in running : KernelOf(i) = kernel /\ i \in doneSet' /\ i \notin doneSet

\* The indices at which the work-items of a dispatch write through the
\* kernel's destination pointer: rgb2grey's work-items of channel 0 write
\* B[id], B[id + image_size], B[id + 2 * image_size]; identity's write B[id]
\* and lookup's C[id].
WriteIndices(kernel, global) ==
  IF kernel = "rgb2grey"
    THEN LET image_size == global \div 3
         IN {id + c * image_size : id \in 0..(image_size - 1), c \in 0..2}
    ELSE 0..(global - 1)

\* The buffer main binds to the kernel's destination pointer.
Destination(kernel) == IF kernel = "lookup" THEN intensityMap ELSE initialImageArray

\* C31: the reducer (rgb2grey or identity) and lookup write at indices of
\* their destination buffer only; a step in which the reducer runs changes
\* no buffer but its destination initialImageArray, and a step in which
\* lookup runs changes no buffer but its destination intensityMap: the
\* original image buffer is unchanged by both and the normalised table by
\* lookup.
C31_ReducerAndRemapperFrame ==
  [][/\ \A i \in 1..Len(queue) :
          KernelOf(i) \in {"rgb2grey", "identity", "lookup"} =>
            WriteIndices(KernelOf(i), queue[i].global) \subseteq DOMAIN Destination(KernelOf(i))
     /\ (StageStep("rgb2grey") \/ StageStep("identity")) =>
          UNCHANGED <<dev_image_input, intensityHistogram, cumulativeHistogram,
                      normalisedHistogram, intensityMap>>
     /\ StageStep("lookup") =>
          UNCHANGED <<dev_image_input, initialImageArray, intensityHistogram,
                      cumulativeHistogram, normalisedHistogram>>]_vars

\* Witness of C31: on a 3-channel image both stages have run, each has
\* changed its destination, and the original image buffer holds the image.
C31_Witness ==
  /\ spectrum = 3
  /\ Completed("rgb2grey")
  /\ Completed("lookup")
  /\ dev_image_input = image_input
  /\ initialImageArray # dev_image_input
  /\ intensityMap # dev_image_input
  /\ intensityMap # initialImageArray

\* ------------------------------------------------------------ claim C32
\* The positions of B the rgb2grey work-item id stores to, in the order of
\* its stores, in a dispatch of global work-items: B[id], B[id + image_size],
\* B[id + 2 * image_size] if colour_channel = id / image_size is 0, none
\* otherwise.
EveryChannelStores(id, global) ==
  LET image_size == global \div 3
  IN <<id % image_size, (id % image_size) + image_size, (id % image_size) + 2 * image_size>>
rgb2greyStores(id, global) ==
  LET image_size == global \div 3
      colour_channel == id \div image_size
  IN IF colour_channel = 0
       THEN <<id, id + image_size, id + 2 * image_size>>
       ELSE <<>>

\* How many stores of the work-item go to position p.
StoresTo(id, global, p) ==
  Cardinality({k \in DOMAIN rgb2greyStores(id, global) : rgb2greyStores(id, global)[k] = p})

\* The device is executing the rgb2grey command.
ReducerRunning == \E i \in running : KernelOf(i) = "rgb2grey"

\* C32: in the rgb2grey dispatch main enqueues, with one work-item per
\* sample of the 3-channel image, every position of the destination buffer
\* is stored to by exactly one work-item, exactly once, that work-item being
\* the one of channel 0 for the position's pixel; the work-items of channels
\* 1 and 2 store nothing.
C32_EachPositionWrittenOnce ==
  \A i \in running :
    KernelOf(i) = "rgb2grey" =>
      LET global == queue[i].global
          ids == 0..(global - 1)
      IN /\ global = 3 * Pixels
         /\ \A p \in DOMAIN initialImageArray :
              /\ {id \in ids : StoresTo(id, global, p) > 0} = {p % Pixels}
              /\ StoresTo(p % Pixels, global, p) = 1
         /\ \A id \in ids : id >= Pixels => rgb2greyStores(id, global) = <<>>

\* Witness of C32: the device is executing rgb2grey on a 16x16 3-channel
\* image, 768 work-items for 768 positions.
C32_Witness ==
  /\ ReducerRunning
  /\ spectrum = 3
  /\ Pixels = 256
  /\ Cardinality(DOMAIN initialImageArray) = 768

\* ------------------------------------------------------------ claim C33
\* All the work-items whose id is an index of the buffers are in one
\* work-group.
ArrayInOneGroup == hsLs >= hsM

\* C33 as stated: when the kernel, dispatched as main dispatches it, has
\* returned, the buffer passed as first argument holds the counts it held
\* before.
C33_ScanKeepsInput ==
  (HsDone /\ HostDispatch) => hsA = hsA0

\* C33 as amended: the kernel writes its first argument in every second
\* round; when the kernel, dispatched as main dispatches it with the
\* work-items of the array in one work-group, has returned, the buffer passed
\* as first argument holds the inclusive prefix sums of the counts it held
\* before, as the second does.
C33_ScanOverwritesInput ==
  (HsDone /\ HostDispatch /\ ArrayInOneGroup) =>
    \A i \in DOMAIN hsA :
      /\ hsA[i] = SumTo(hsA0, i + 1)
      /\ hsB[i] = hsA[i]

\* Witness of C33: the kernel has returned from such a dispatch on two
\* non-zero counts and its first argument no longer holds them.
C33_Witness ==
  /\ HsDone
  /\ HostDispatch
  /\ ArrayInOneGroup
  /\ hsM = 2
  /\ hsA0[0] > 0
  /\ hsA0[1] > 0
  /\ hsA[1] = hsA0[0] + hsA0[1]
  /\ hsA # hsA0

\* ------------------------------------------- the kernels that use barriers
\* local_global, cumulativeHistogram and scan_bl, each run to its end by a
\* device that keeps executing work-items as long as one of them can take a
\* step.
InitBarrier == InitHist \/ InitHs \/ InitScan

NextBarrier == NextHist \/ NextHs \/ NextScan

SpecBarrier == InitBarrier /\ [][NextBarrier]_vars /\ WF_vars(NextBarrier)

\* Barriers a work-item of local_global has passed.
lgBarriersPassed(w) ==
  IF PhaseOf(pcP[w].pc) > 3 THEN 2 ELSE IF PhaseOf(pcP[w].pc) > 1 THEN 1 ELSE 0

\* A work-item that has finished has executed the barriers its kernel
\* executes for the dispatch, which do not depend on its id or on the data.
UniformBarriers ==
  /\ \A w \in DOMAIN pcP : pcP[w].pc = "done" => lgBarriersPassed(w) = 2
  /\ \A w \in DOMAIN hsPc : hsPc[w].pc = "done" => hsPc[w] = HsExit(1, FALSE)
  /\ \A v, w \in DOMAIN scanPc :
       scanPc[v].pc = "done" /\ scanPc[w].pc = "done" => scanPc[v].bars = scanPc[w].bars
  /\ \A v, w \in DOMAIN scanPc :
       scanPc[v].bars - scanPc[w].bars \in {-1, 0, 1}

\* The kernel's work-items have all returned.
LocalGlobalReturned == pcP # <<>> /\ \A w \in DOMAIN pcP : pcP[w].pc = "done"

\* C34: in the partitioned histogram, the inclusive scan and the Blelloch
\* scan all work-items of a group execute the same sequence of barriers
\* whatever their id and their data, so no work-item waits forever at a
\* barrier and every work-item eventually terminates.
C34_BarrierKernelsTerminate ==
  /\ []UniformBarriers
  /\ <>(LocalGlobalReturned \/ HsDone \/ ScanDone)

\* Work-items of one group have waited for each other at a barrier of each of
\* the three kernels and all have returned.
C34_Witness ==
  \/ /\ PartitionedDone
     /\ \E v, w \in DOMAIN pcP : v # w /\ groupOf(v) = groupOf(w)
  \/ /\ HsDone
     /\ hsN > 1
     /\ hsLs > 1
     /\ hsA # hsA0
  \/ /\ ScanDone
     /\ scanN > 2
     /\ scanA # scanA0

\* ------------------------------------------------------------ claim C35
\* The values of i for which "for (i = first; i < limit; i += step)" runs
\* its body, in order, from the position pos of the loop.
RECURSIVE LoopTrace(_, _, _)
LoopTrace(pos, step, limit) ==
  IF pos.pc = "count"
    THEN <<pos.i>> \o LoopTrace(LoopNext("count", "barrier2", pos.i, step, limit), step, limit)
    ELSE <<>>

\* The sample indices the accumulation loop of work-item w runs its body for.
CountTrace(w) == LoopTrace(LoopEnter("count", "barrier2", w, A_size), gsize, A_size)

\* The iterations of the accumulation loop the work-item has run so far.
IterationsRun(w) ==
  {k \in DOMAIN CountTrace(w) :
     \/ PhaseOf(pcP[w].pc) > 2
     \/ pcP[w].pc = "count" /\ CountTrace(w)[k] < pcP[w].i}

\* C35: in the accumulation loop of local_global, for every buffer length
\* A_size and every number gsize >= 1 of work-items, each sample index in
\* 0..A_size-1 is counted exactly once, by exactly one work-item, the one
\* whose global id is the index modulo gsize, and a work-item whose id is at
\* least A_size counts nothing; the local arrays hold exactly these counts.
C35_EachSampleCountedOnce ==
  launch = "local_global" =>
    /\ gsize >= 1
    /\ \A i \in 0..(A_size - 1) :
         /\ {w \in DOMAIN pcP : \E k \in DOMAIN CountTrace(w) : CountTrace(w)[k] = i}
              = {i % gsize}
         /\ Cardinality({k \in DOMAIN CountTrace(i % gsize) : CountTrace(i % gsize)[k] = i}) = 1
    /\ \A w \in DOMAIN pcP :
         /\ w >= A_size => CountTrace(w) = <<>> /\ pcP[w].pc # "count"
         /\ pcP[w].pc = "count" =>
              \E k \in DOMAIN CountTrace(w) : CountTrace(w)[k] = pcP[w].i
    /\ \A g \in DOMAIN LH :
         (\A w \in GroupMembers(g) : PhaseOf(pcP[w].pc) >= 1) =>
           \A v \in Bins :
             LH[g][v] = Cardinality({p \in GroupMembers(g) \X (1..A_size) :
                                       /\ p[2] \in IterationsRun(p[1])
                                       /\ A[CountTrace(p[1])[p[2]]] = v})

\* More work-items than samples: every work-item has left the accumulation
\* loop, one of them without having counted.
C35_Witness ==
  /\ launch = "local_global"
  /\ gsize > A_size
  /\ A_size > 1
  /\ \A w \in DOMAIN pcP : PhaseOf(pcP[w].pc) >= 3
  /\ \E g \in DOMAIN LH : \E v \in Bins : LH[g][v] > 0

====
